---- MODULE Spec2Model ----
(***************************************************************************)
(* GroupAuth Dstack TEE agent (src/agent/app.py).                          *)
(*                                                                         *)
(* The agent is a linear script: identity derivation, registration on the  *)
(* GroupAuth registry, a status HTTP server on a daemon thread, and an     *)
(* endless watcher loop that onboards newly registered members.  The       *)
(* script has no exception handler: every call that raises ends the        *)
(* process.  The ledger (chain head, MemberRegistered log, member records, *)
(* transaction receipts) is the environment.                               *)
(***************************************************************************)
EXTENDS Integers, Sequences, FiniteSets, TLC

(* ------------------------------ bounds -------------------------------- *)

\* blocks mined in a run of the model
MaxBlock == 2

\* MemberRegistered events of other parties in a run of the model
MaxEvents == 2

\* restarts of the process in a run of the model
MaxRestarts == 1

\* transactions the integration test may send to one deployment
MaxTestTxs == 5

\* characters in one link of an attestation reply
MaxLinkLen == 4

(* ----------------------------- constants ------------------------------ *)

GROUP_SECRET == "S"

\* compressed public keys; "PX" is a byte string that is not a curve point
Pubkeys == {"P0", "P1", "P2", "PX"}

\* the key the attestation service derives for path "/groupauth"
derived_pubkey == "P0"

\* Web3.solidity_keccak(["bytes"], [pubkey]): a one-way hash, injective here
MemberId(pk) ==
    CASE pk = "P0" -> "M0"
      [] pk = "P1" -> "M1"
      [] pk = "P2" -> "M2"
      [] pk = "PX" -> "MX"

MemberIds == {MemberId(pk) : pk \in Pubkeys}

\* ecies accepts a recipient key only if it decodes to a curve point
WellFormedKey(pk) == pk \in {"P0", "P1", "P2"}

\* variant: every payload is encrypted under the agent's own key
ecies_encrypt_OwnKey(pk, secret) ==
    [cipher |-> "ecies", key |-> "P0", plain |-> secret]

\* ecies_encrypt(recipient_pubkey, GROUP_SECRET.encode())
ecies_encrypt(pk, secret) == [cipher |-> "ecies", key |-> pk, plain |-> secret]

NoPayload == [cipher |-> "none", key |-> "none", plain |-> "none"]

NoEvent == [block |-> 0, pubkey |-> "none"]

(* a hex string is the sequence of its characters, a byte string the
   sequence of its bytes *)

\* the digits bytes.fromhex takes; bytes.hex() writes the first sixteen
HexDigits == <<"0", "1", "2", "3", "4", "5", "6", "7", "8", "9",
               "a", "b", "c", "d", "e", "f",
               "A", "B", "C", "D", "E", "F">>

IsHexDigit(c) == \E d \in 1..22 : HexDigits[d] = c

HexVal(c) ==
    LET d == CHOOSE i \in 1..22 : HexDigits[i] = c
    IN  IF d <= 16 THEN d - 1 ELSE d - 7

\* the vertical tab: the string holds the one character 0x0b
VerticalTab == ""

\* ASCII white space, which bytes.fromhex skips in front of a pair of
\* digits and at the end
WhiteSpace == {" ", "\t", "\n", "\f", "\r", VerticalTab}

\* str.replace('0x', ''): the string is read from the left, and every
\* occurrence of 0x met is taken out
RECURSIVE Replace0x(_)
Replace0x(str) ==
    IF Len(str) = 0
    THEN << >>
    ELSE IF Len(str) >= 2 /\ str[1] = "0" /\ str[2] = "x"
    THEN Replace0x(SubSeq(str, 3, Len(str)))
    ELSE <<str[1]>> \o Replace0x(Tail(str))

\* bytes.fromhex raises ValueError unless it is given pairs of hex digits,
\* with white space nowhere but between pairs: every character is white
\* space or a digit, and a digit that has an even number of digits before
\* it is followed at once by another digit
IsHex(str) ==
    \A i \in 1..Len(str) :
        \/ str[i] \in WhiteSpace
        \/ /\ IsHexDigit(str[i])
           /\ Cardinality({j \in 1..(i - 1) : str[j] \notin WhiteSpace}) % 2 = 0
                => /\ i < Len(str)
                   /\ IsHexDigit(str[i + 1])

\* bytes.fromhex(str)
FromHex(str) ==
    LET digits == SelectSeq(str, LAMBDA c : c \notin WhiteSpace)
    IN  [i \in 1..(Len(digits) \div 2) |->
            16 * HexVal(digits[2 * i - 1]) + HexVal(digits[2 * i])]

\* info.app_id as the attestation service reports it: 20 bytes in hex
app_id == [i \in 1..40 |-> IF i % 2 = 1 THEN "a" ELSE "0"]

\* the 20-byte commit sha the GitHub proof attests
commit_sha == [i \in 1..20 |-> 10]

\* variant: the zero bytes are put in front
ZeroExtend_LeftPad(b20) == [i \in 1..12 |-> 0] \o b20

\* b20 + b'\x00' * 12
ZeroExtend(b20) == b20 \o [i \in 1..12 |-> 0]

\* lines 52-53
CodeIdOf(aid) == ZeroExtend(FromHex(Replace0x(aid)))

\* build_dstack_proof of the integration test, lines 137 and 156-157
TestCodeId(aid) == FromHex(Replace0x(aid)) \o [i \in 1..12 |-> 0]

\* the code id build_dstack_proof returns to the integration test
ds_code_id == TestCodeId(app_id)

\* the signature chain of a well-behaved attestation service
signature_chain == << <<"0", "x", "a", "a">>, <<"0", "x", "a", "0">> >>

\* result.key of a well-behaved attestation service: 32 bytes in hex
key == <<"0", "x">> \o [i \in 1..64 |-> IF i % 2 = 1 THEN "0" ELSE "1"]

\* line 33: bytes.fromhex(result.key.replace('0x', ''))[:32]
DerivedKey(k) ==
    LET b == FromHex(Replace0x(k))
    IN  SubSeq(b, 1, IF Len(b) < 32 THEN Len(b) ELSE 32)

\* the order of the secp256k1 group, big-endian
GroupOrder ==
    [i \in 1..15 |-> 255] \o
    <<254, 186, 174, 220, 230, 175, 72, 160, 59, 191, 210, 94, 140, 208, 54,
      65, 65>>

\* line 34: Account.from_key raises ValueError unless it is given 32 bytes
\* that, read as a number, are above zero and below the group order
ValidPrivateKey(sk) ==
    /\ Len(sk) = 32
    /\ \E i \in 1..32 : sk[i] # 0
    /\ \E i \in 1..32 : /\ sk[i] < GroupOrder[i]
                         /\ \A j \in 1..(i - 1) : sk[j] = GroupOrder[j]

\* lines 40-41: the compressed public key of a private key, a function of
\* its bytes; the key of the well-behaved service has derived_pubkey
PublicKey(sk) ==
    IF sk = [i \in 1..32 |-> 1] THEN derived_pubkey
    ELSE IF sk[32] % 2 = 0 THEN "P1"
    ELSE "P2"

\* keys.Signature(sig).recover_public_key_from_msg_hash(h): the key a
\* signature recovers to is a function of its bytes; a signature with
\* r = 0 is refused.  Here a signature is one byte long.
RecoverKey(sig) ==
    IF Len(sig) # 1 \/ sig = <<0>>
    THEN "invalid"
    ELSE IF sig = <<170>> THEN "APP"
    ELSE IF sig = <<160>> THEN "KMS"
    ELSE "OTHER"

\* variant: the two signatures change places
DstackProof_Swapped(app_sig, kms_sig, app_pubkey, pubkey) ==
    [messageHash |-> "keccak(groupauth-register)",
     messageSignature |-> [signer |-> pubkey],
     appSignature |-> kms_sig,
     kmsSignature |-> app_sig,
     derivedCompressedPubkey |-> pubkey,
     appCompressedPubkey |-> app_pubkey,
     purpose |-> "ethereum"]

\* lines 47-50 and 55: the message signed with the derived key, and the
\* proof tuple
DstackProof(app_sig, kms_sig, app_pubkey, pubkey) ==
    [messageHash |-> "keccak(groupauth-register)",
     messageSignature |-> [signer |-> pubkey],
     appSignature |-> app_sig,
     kmsSignature |-> kms_sig,
     derivedCompressedPubkey |-> pubkey,
     appCompressedPubkey |-> app_pubkey,
     purpose |-> "ethereum"]

NoProof == DstackProof(<< >>, << >>, "none", "none")

\* a member record of the registry: getMember(id)
NoRecord == [codeId |-> << >>, pubkey |-> "none", registeredAt |-> 0]

(* ------------------------------- state -------------------------------- *)

VARIABLES
    head,             \* ledger: number of the latest block
    log,              \* ledger: MemberRegistered events, in registry order
    registry,         \* ledger: public keys that have a membership record
    records,          \* ledger: membership record of each memberId
    onboardings,      \* ledger: onboarding messages stored for each memberId
    mempool,          \* ledger: transactions submitted and not yet mined
    receipt,          \* ledger: receipt status of the transaction submitted
                      \* last ("none" until it is mined)
    txlog,            \* transactions this process has submitted
    attested,         \* links in the attestation reply of this process
    calls,            \* ledger calls this process has made
    queries,          \* block ranges this process has asked events for
    pc,               \* position of the main thread in the script
    life,             \* number of times the process has been restarted
    exitCause,        \* why the process ended ("none" while it runs)
    exitAt,           \* position at which the process ended
    info,             \* reply of client.info()
    result,           \* reply of client.get_key("/groupauth", "ethereum")
    code_id,
    dstack_proof,
    my_member_id,
    is_member,        \* result of the isMember call of this run
    serverUp,         \* the status server thread is serving
    onboarded,
    last_block,
    start_block,      \* value last_block was given before the loop
    current_block,
    events,           \* events of the current tick not yet iterated
    evt,              \* event being handled
    recipient_pubkey,
    payload,
    status_body       \* body of the latest status response of this process

vars == <<head, log, registry, records, onboardings, mempool, receipt, txlog, attested, calls,
          queries, pc, life, exitCause, exitAt, info, result, code_id,
          dstack_proof, my_member_id, is_member, serverUp, onboarded, last_block, start_block, current_block,
          events, evt, recipient_pubkey, payload, status_body>>

ledger == <<head, log, registry, records, onboardings, mempool, receipt>>

\* what the outside has seen of this process, apart from its transactions
trace == <<attested, calls, queries>>

\* what lines 26-64 leave behind for the registration
identity == <<info, result, code_id, dstack_proof>>

NoInfo == [app_id |-> << >>]

NoResult == [key |-> << >>, signature_chain |-> << >>]

memory == <<identity, my_member_id, is_member, onboarded, last_block, start_block,
            current_block, events, evt, recipient_pubkey, payload>>

(* ------------------------------ helpers ------------------------------- *)

\* ga.functions.isMember(id).call()
isMember(id) == \E pk \in registry : MemberId(pk) = id

\* variant: the key used is the agent's own instead of the one read
getMemberPubkey_Own(id) == derived_pubkey

\* ga.functions.getMember(id).call()[1]
getMemberPubkey(id) == CHOOSE pk \in registry : MemberId(pk) = id

\* variant: the events of the range come newest first
get_logs_Reversed(from_block, to_block) ==
    LET r == SelectSeq(log, LAMBDA e : e.block >= from_block
                                       /\ e.block <= to_block)
    IN  [i \in 1..Len(r) |-> r[Len(r) + 1 - i]]

\* ga.events.MemberRegistered.get_logs(from_block, to_block)
get_logs(from_block, to_block) ==
    SelectSeq(log, LAMBDA e : e.block >= from_block /\ e.block <= to_block)

\* evt.args.memberId
new_id == MemberId(evt.pubkey)

\* variant: only signature_chain[0] is read
HasBothLinks_FirstOnly(chain) == chain >= 1

\* line 38 reads signature_chain[1] after line 37 has read
\* signature_chain[0]
HasBothLinks(chain) == chain >= 2

\* variant: the script goes on to the watcher whatever isMember answered
ShouldRegister_Never(member) == FALSE

\* the registration is sent without regard to the isMember answer
ShouldRegister_Always(member) == TRUE

\* line 73: register only when the identity is not a member yet
ShouldRegister(member) == ~member

\* variant: every tick queries, whether or not the head moved
HeadAdvanced_Always(cur, last) == TRUE

\* variant: the comparison lets an unmoved head through
HeadAdvanced_OrEqual(cur, last) == cur >= last

\* line 109: a tick does work only when the head moved
HeadAdvanced(cur, last) == cur > last

\* the dedup set is not consulted
SkipEvent_NoDedup(id, me, done) == id = me

\* the agent's own events are not filtered out
SkipEvent_NoSelf(id, me, done) == id \in done

\* line 113: never onboard yourself, never onboard twice
SkipEvent(id, me, done) == id = me \/ id \in done

\* variant: only a receipt with status 1 marks the member
MarksOnboarded_OnlyOk(status) == status = "ok"

\* line 125 runs whenever wait_for_transaction_receipt returns
MarksOnboarded(status) == TRUE

\* variant: the set is replaced instead of extended
AddOnboarded_Replace(done, id) == {id}

\* line 125: onboarded.add(new_id)
AddOnboarded(done, id) == done \cup {id}

\* variant: the receipt status is not looked at
AssertStatus_Skipped(status) == TRUE

\* line 82: assert receipt['status'] == 1
AssertStatus(status) == status = "ok"

\* variant: the head is read again when the watermark is set
NextLastBlock_Reread(cur, last) == head

\* the watermark is given the block of the event handled last instead of
\* the head
NextLastBlock_LastEvent(cur, last) == evt.block

\* line 127: the watermark becomes the head read at the start of the tick
NextLastBlock(cur, last) == cur

WatcherPcs == {"poll", "get_logs", "for", "getMember", "encrypt", "send",
               "wait", "sleep"}

NoStatus == [status |-> "none", memberId |-> "none", onboarded_count |-> 0]

\* the values the module globals have before the script assigns them
Unassigned ==
    /\ info' = NoInfo
    /\ result' = NoResult
    /\ code_id' = << >>
    /\ dstack_proof' = NoProof
    /\ my_member_id' = "none"
    /\ is_member' = FALSE
    /\ onboarded' = {}
    /\ last_block' = 0
    /\ start_block' = 0
    /\ current_block' = 0
    /\ events' = << >>
    /\ evt' = NoEvent
    /\ recipient_pubkey' = "none"
    /\ payload' = NoPayload

\* an exception nobody catches: the process ends, and with it the server
\* thread and everything held in memory
Exit(cause) ==
    /\ pc' = "exited"
    /\ exitAt' = pc
    /\ exitCause' = cause
    /\ serverUp' = FALSE
    /\ Unassigned
    /\ UNCHANGED <<life, status_body>>

\* what a step of the main thread that raises nothing leaves alone
process == <<life, exitCause, exitAt, serverUp, status_body>>

(* ------------------------------ ledger -------------------------------- *)

\* the code id a key registers under: the agent's key through
\* registerDstack, any other key through registerGitHub
CodeFor(pk) ==
    IF pk = derived_pubkey THEN CodeIdOf(app_id) ELSE ZeroExtend(commit_sha)

\* variant: a registration restamps the records made before it
RegistryRegister_Restamp(recs, pk, code, blk) ==
    [id \in DOMAIN recs |->
        IF id = MemberId(pk)
        THEN [codeId |-> code, pubkey |-> pk, registeredAt |-> blk]
        ELSE IF recs[id] # NoRecord
        THEN [recs[id] EXCEPT !.registeredAt = blk]
        ELSE recs[id]]

\* registry: a registration creates the record of a memberId that has
\* none; an existing record is never changed
RegistryRegister(recs, pk, code, blk) ==
    IF recs[MemberId(pk)] # NoRecord
    THEN recs
    ELSE [recs EXCEPT ![MemberId(pk)] =
              [codeId |-> code, pubkey |-> pk, registeredAt |-> blk]]

\* registry: the registrations of one block, in order
RECURSIVE RegisterAll(_, _, _)
RegisterAll(recs, pks, blk) ==
    IF pks = << >>
    THEN recs
    ELSE RegisterAll(RegistryRegister(recs, Head(pks), CodeFor(Head(pks)),
                                      blk),
                     Tail(pks), blk)

\* variant: the message is filed under its sender
RegistryOnboard_Misfiled(obs, from, to, pl) ==
    [obs EXCEPT ![from] = Append(@, [fromMember |-> from,
                                     encryptedPayload |-> pl])]

\* registry: onboard(from, to, payload) appends one message for `to`
RegistryOnboard(obs, from, to, pl) ==
    [obs EXCEPT ![to] = Append(@, [fromMember |-> from,
                                   encryptedPayload |-> pl])]

\* ga.functions.getOnboarding(id).call()
getOnboarding(id) == onboardings[id]

\* ga.functions.getMember(id).call()
getMember(id) == records[id]

\* the events one block can hold: any keys, in any order
BlockEvents(n) ==
    UNION {[1..k -> Pubkeys] : k \in 0..n}

\* a new block is mined; it holds the MemberRegistered events of the
\* registrations of other parties that it includes
MineBlock ==
    /\ head < MaxBlock
    /\ \E pks \in BlockEvents(MaxEvents - Len(log)) :
         /\ head' = head + 1
         /\ log' = log \o [i \in 1..Len(pks) |->
                              [block |-> head + 1, pubkey |-> pks[i]]]
         /\ registry' = registry \cup {pks[i] : i \in 1..Len(pks)}
         /\ records' = RegisterAll(records, pks, head + 1)
    /\ UNCHANGED <<onboardings, mempool, receipt, txlog, pc>>
    /\ UNCHANGED trace
    /\ UNCHANGED process
    /\ UNCHANGED memory

\* the transaction submitted first is mined, in the latest block or in a
\* block of its own, whether or not its sender still waits for it.  A
\* registration with status 1 creates the record and emits the
\* MemberRegistered event in a new block; an onboarding with status 1
\* stores its message; with status 0 nothing is stored.
MineTx ==
    /\ mempool # << >>
    /\ LET tx == Head(mempool)
       IN  \E status \in {"ok", "reverted"}, makes_block \in BOOLEAN :
             /\ makes_block => head < MaxBlock
             /\ (tx.kind = "register" /\ status = "ok") => makes_block
             /\ head' = IF makes_block THEN head + 1 ELSE head
             /\ IF tx.kind = "register" /\ status = "ok"
                THEN /\ log' = Append(log, [block |-> head + 1,
                                           pubkey |-> tx.pubkey])
                     /\ registry' = registry \cup {tx.pubkey}
                     /\ records' = RegistryRegister(records, tx.pubkey,
                                                    tx.codeId, head + 1)
                ELSE UNCHANGED <<log, registry, records>>
             /\ onboardings' =
                    IF tx.kind = "onboard" /\ status = "ok"
                    THEN RegistryOnboard(onboardings, tx.from, tx.to,
                                         tx.payload)
                    ELSE onboardings
             /\ receipt' = IF Len(mempool) = 1 THEN status ELSE receipt
    /\ mempool' = Tail(mempool)
    /\ UNCHANGED <<txlog, pc>>
    /\ UNCHANGED trace
    /\ UNCHANGED process
    /\ UNCHANGED memory

(* ------------------------------ startup ------------------------------- *)

Tx(kind, to, pl, blk) ==
    [kind |-> kind, from |-> my_member_id, to |-> to, payload |-> pl,
     status |-> "pending", evblock |-> blk]

\* building and sending a transaction: the node cannot be reached for the
\* nonce or the transaction fields, or it refuses the signed transaction,
\* or it accepts it
SendOutcomes == {"unreachable", "refused", "accepted"}

\* lines 76-80 and 119-123: send_raw_transaction is called once the
\* transaction is built
SendCalls(outcome) ==
    IF outcome = "unreachable"
    THEN {"get_transaction_count"}
    ELSE {"get_transaction_count", "send_raw_transaction"}

\* a transaction as the node holds it until it is mined
Submitted(kind, to, pl) ==
    [kind |-> kind, from |-> my_member_id, to |-> to, payload |-> pl,
     codeId |-> code_id, pubkey |-> dstack_proof.derivedCompressedPubkey]

\* lines 81 and 124: wait_for_transaction_receipt raises when the time
\* runs out before a poll sees the receipt, or when the node cannot be
\* reached for a poll
WaitFailures == {"TransactionTimeout", "ConnectionFailed"}

\* variant: the script goes on without the receipt
Resolve_NotAwaited(status) == txlog

\* the receipt (or the timeout) of the transaction sent last
Resolve(status) == [txlog EXCEPT ![Len(txlog)].status = status]

\* variant: the proof is put together only when a registration needs it,
\* and the membership is asked for first
Derive_AssemblyDeferred(reachable, aid, k, sc) ==
    /\ pc = "derive"
    /\ IF ~reachable
       THEN /\ attested' = 0
            /\ Exit("AttestationUnreachable")
       ELSE /\ attested' = Len(sc)
            /\ IF ~IsHex(Replace0x(k)) \/ ~ValidPrivateKey(DerivedKey(k))
               THEN Exit("ValueError")
               ELSE /\ info' = [app_id |-> aid]
                    /\ result' = [key |-> k, signature_chain |-> sc]
                    /\ my_member_id' = MemberId(PublicKey(DerivedKey(k)))
                    /\ pc' = "isMember"
                    /\ UNCHANGED process
                    /\ UNCHANGED <<code_id, dstack_proof,
                                   is_member, onboarded, last_block,
                                   start_block, current_block, events, evt,
                                   recipient_pubkey, payload>>
    /\ UNCHANGED <<txlog, calls, queries>>
    /\ UNCHANGED ledger

\* lines 26-35: application id, key and signature chain from the
\* attestation service; the key is decoded and made the account key
Derive(reachable, aid, k, sc) ==
    /\ pc = "derive"
    /\ IF ~reachable
       THEN /\ attested' = 0
            /\ Exit("AttestationUnreachable")
       ELSE /\ attested' = Len(sc)
            /\ IF ~IsHex(Replace0x(k)) \/ ~ValidPrivateKey(DerivedKey(k))
               THEN Exit("ValueError")
               ELSE /\ info' = [app_id |-> aid]
                    /\ result' = [key |-> k, signature_chain |-> sc]
                    /\ pc' = "assemble"
                    /\ UNCHANGED process
                    /\ UNCHANGED <<code_id, dstack_proof, my_member_id,
                                   is_member, onboarded, last_block,
                                   start_block, current_block, events, evt,
                                   recipient_pubkey, payload>>
    /\ UNCHANGED <<txlog, calls, queries>>
    /\ UNCHANGED ledger

\* a key reply that is no hex string
BadKey == <<"0", "x", "z", "z">>

\* the service cannot be reached, or it replies with a key that does not
\* decode, or with a chain that is whole or cut short
DeriveIdentity ==
    \/ Derive(FALSE, app_id, key, signature_chain)
    \/ Derive(TRUE, app_id, BadKey, signature_chain)
    \/ \E n \in 0..2 : Derive(TRUE, app_id, key, SubSeq(signature_chain, 1, n))

\* link i of the chain, and the last link for an index past the end, which
\* the script does not read
Link(i) ==
    LET chain == result.signature_chain
    IN  IF i \in DOMAIN chain THEN chain[i] ELSE chain[Len(chain)]

\* lines 37-71: the links are read and decoded one after the other, the
\* issuer keys recovered, the code id and the proof put together, the
\* member id computed.  Nothing is compared with an expected key; what is
\* missing, cannot be decoded or cannot be recovered raises.
AssembleProof ==
    /\ pc = "assemble"
    /\ IF Len(result.signature_chain) = 0
       THEN Exit("IndexError")
       ELSE IF ~IsHex(Replace0x(Link(1)))
       THEN Exit("ValueError")
       ELSE IF ~HasBothLinks(Len(result.signature_chain))
       THEN Exit("IndexError")
       ELSE IF ~IsHex(Replace0x(Link(2)))
       THEN Exit("ValueError")
       ELSE IF RecoverKey(FromHex(Replace0x(Link(1)))) = "invalid"
       THEN Exit("BadSignature")
       ELSE IF ~IsHex(Replace0x(info.app_id))
       THEN Exit("ValueError")
       ELSE IF RecoverKey(FromHex(Replace0x(Link(2)))) = "invalid"
       THEN Exit("BadSignature")
       ELSE /\ code_id' = CodeIdOf(info.app_id)
            /\ dstack_proof' =
                   DstackProof(FromHex(Replace0x(Link(1))),
                               FromHex(Replace0x(Link(2))),
                               RecoverKey(FromHex(Replace0x(Link(1)))),
                               PublicKey(DerivedKey(result.key)))
            /\ my_member_id' = MemberId(PublicKey(DerivedKey(result.key)))
            /\ pc' = "isMember"
            /\ UNCHANGED process
            /\ UNCHANGED <<info, result, is_member, onboarded,
                           last_block, start_block, current_block,
                           events, evt, recipient_pubkey, payload>>
    /\ UNCHANGED txlog
    /\ UNCHANGED trace
    /\ UNCHANGED ledger

\* line 73
CheckMember ==
    /\ pc = "isMember"
    /\ \E reachable \in BOOLEAN :
         IF ~reachable
         THEN Exit("ReadError")
         ELSE /\ is_member' = isMember(my_member_id)
              /\ pc' = IF ShouldRegister(is_member')
                       THEN "register_send" ELSE "serve"
              /\ UNCHANGED process
              /\ UNCHANGED <<identity, my_member_id, onboarded, last_block,
                             start_block, current_block, events, evt,
                             recipient_pubkey, payload>>
    /\ calls' = calls \cup {"isMember"}
    /\ UNCHANGED <<txlog, attested, queries>>
    /\ UNCHANGED ledger

\* lines 76-80
RegisterSend ==
    /\ pc = "register_send"
    /\ \E outcome \in SendOutcomes :
         /\ calls' = calls \cup SendCalls(outcome)
         /\ IF outcome # "accepted"
            THEN /\ Exit("SendError")
                 /\ UNCHANGED <<txlog, mempool, receipt>>
            ELSE /\ txlog' = Append(txlog, Tx("register", my_member_id,
                                              NoPayload, 0))
                 /\ mempool' = Append(mempool,
                                      Submitted("register", my_member_id,
                                                NoPayload))
                 /\ receipt' = "none"
                 /\ pc' = "register_wait"
                 /\ UNCHANGED process
                 /\ UNCHANGED memory
    /\ UNCHANGED <<attested, queries>>
    /\ UNCHANGED <<head, log, registry, records, onboardings>>

\* lines 81-83: the wait raises, or it returns the receipt of the mined
\* registration, whose status must be 1
RegisterWait ==
    /\ pc = "register_wait"
    /\ \/ \E cause \in WaitFailures :
            /\ txlog' = Resolve("timeout")
            /\ Exit(cause)
       \/ /\ receipt # "none"
          /\ txlog' = Resolve(receipt)
          /\ IF ~AssertStatus(receipt)
             THEN Exit("RegistrationReverted")
             ELSE /\ pc' = "serve"
                  /\ UNCHANGED process
                  /\ UNCHANGED memory
    /\ calls' = calls \cup {"wait_for_transaction_receipt"}
    /\ UNCHANGED <<attested, queries>>
    /\ UNCHANGED ledger

\* lines 85-102: empty dedup set, status server thread started
StartServer ==
    /\ pc = "serve"
    /\ onboarded' = {}
    /\ serverUp' = TRUE
    /\ pc' = "watch"
    /\ UNCHANGED <<life, exitCause, exitAt, status_body>>
    /\ UNCHANGED <<identity, my_member_id, is_member, last_block, start_block,
                   current_block, events, evt, recipient_pubkey, payload>>
    /\ UNCHANGED <<txlog, attested, calls, queries>>
    /\ UNCHANGED ledger

\* variant: the watcher scans from the first block instead of the head
StartWatcher_FromGenesis ==
    /\ pc = "watch"
    /\ \E reachable \in BOOLEAN :
         IF ~reachable
         THEN Exit("ReadError")
         ELSE /\ last_block' = 0
              /\ start_block' = 0
              /\ pc' = "poll"
              /\ UNCHANGED process
              /\ UNCHANGED <<identity, my_member_id, is_member, onboarded,
                             current_block, events, evt, recipient_pubkey, payload>>
    /\ calls' = calls \cup {"block_number"}
    /\ UNCHANGED <<txlog, attested, queries>>
    /\ UNCHANGED ledger

\* line 105: the initial watermark is the chain head
StartWatcher ==
    /\ pc = "watch"
    /\ \E reachable \in BOOLEAN :
         IF ~reachable
         THEN Exit("ReadError")
         ELSE /\ last_block' = head
              /\ start_block' = head
              /\ pc' = "poll"
              /\ UNCHANGED process
              /\ UNCHANGED <<identity, my_member_id, is_member, onboarded,
                             current_block, events, evt, recipient_pubkey, payload>>
    /\ calls' = calls \cup {"block_number"}
    /\ UNCHANGED <<txlog, attested, queries>>
    /\ UNCHANGED ledger

(* ---------------------------- watcher loop ---------------------------- *)

\* lines 108-109
Poll ==
    /\ pc = "poll"
    /\ \E reachable \in BOOLEAN :
         IF ~reachable
         THEN Exit("ReadError")
         ELSE /\ current_block' = head
              /\ pc' = IF HeadAdvanced(current_block', last_block)
                       THEN "get_logs" ELSE "sleep"
              /\ UNCHANGED process
              /\ UNCHANGED <<identity, my_member_id, is_member, onboarded, last_block,
                             start_block, events, evt, recipient_pubkey,
                             payload>>
    /\ calls' = calls \cup {"block_number"}
    /\ UNCHANGED <<txlog, attested, queries>>
    /\ UNCHANGED ledger

\* line 110
GetLogs ==
    /\ pc = "get_logs"
    /\ \E reachable \in BOOLEAN :
         IF ~reachable
         THEN Exit("ReadError")
         ELSE /\ events' = get_logs(last_block + 1, current_block)
              /\ pc' = "for"
              /\ UNCHANGED process
              /\ UNCHANGED <<identity, my_member_id, is_member, onboarded, last_block,
                             start_block, current_block, evt,
                             recipient_pubkey, payload>>
    /\ calls' = calls \cup {"get_logs"}
    /\ queries' = Append(queries, <<last_block + 1, current_block>>)
    /\ UNCHANGED <<txlog, attested>>
    /\ UNCHANGED ledger

\* lines 111-115: next event of the range, skipped or taken up
ForNext ==
    /\ pc = "for"
    /\ events # << >>
    /\ evt' = Head(events)
    /\ events' = Tail(events)
    /\ pc' = IF SkipEvent(MemberId(evt'.pubkey), my_member_id, onboarded)
             THEN "for" ELSE "getMember"
    /\ UNCHANGED process
    /\ UNCHANGED <<identity, my_member_id, is_member, onboarded, last_block,
                   start_block, current_block, recipient_pubkey, payload>>
    /\ UNCHANGED txlog
    /\ UNCHANGED trace
    /\ UNCHANGED ledger

\* line 127: the range is exhausted
ForDone ==
    /\ pc = "for"
    /\ events = << >>
    /\ last_block' = NextLastBlock(current_block, last_block)
    /\ pc' = "sleep"
    /\ UNCHANGED process
    /\ UNCHANGED <<identity, my_member_id, is_member, onboarded, start_block,
                   current_block, events, evt, recipient_pubkey, payload>>
    /\ UNCHANGED txlog
    /\ UNCHANGED trace
    /\ UNCHANGED ledger

\* lines 116-117
GetMember ==
    /\ pc = "getMember"
    /\ \E reachable \in BOOLEAN :
         IF ~reachable
         THEN Exit("ReadError")
         ELSE /\ recipient_pubkey' = getMemberPubkey(new_id)
              /\ pc' = "encrypt"
              /\ UNCHANGED process
              /\ UNCHANGED <<identity, my_member_id, is_member, onboarded, last_block,
                             start_block, current_block, events, evt,
                             payload>>
    /\ calls' = calls \cup {"getMember"}
    /\ UNCHANGED <<txlog, attested, queries>>
    /\ UNCHANGED ledger

\* line 118: ecies raises on a key that is not a curve point
Encrypt ==
    /\ pc = "encrypt"
    /\ IF WellFormedKey(recipient_pubkey)
       THEN /\ payload' = ecies_encrypt(recipient_pubkey, GROUP_SECRET)
            /\ pc' = "send"
            /\ UNCHANGED process
            /\ UNCHANGED <<identity, my_member_id, is_member, onboarded, last_block,
                           start_block, current_block, events, evt,
                           recipient_pubkey>>
       ELSE Exit("EncryptionError")
    /\ UNCHANGED txlog
    /\ UNCHANGED trace
    /\ UNCHANGED ledger

\* lines 119-123
Send ==
    /\ pc = "send"
    /\ \E outcome \in SendOutcomes :
         /\ calls' = calls \cup SendCalls(outcome)
         /\ IF outcome # "accepted"
            THEN /\ Exit("SendError")
                 /\ UNCHANGED <<txlog, mempool, receipt>>
            ELSE /\ txlog' = Append(txlog, Tx("onboard", new_id, payload,
                                              evt.block))
                 /\ mempool' = Append(mempool,
                                      Submitted("onboard", new_id, payload))
                 /\ receipt' = "none"
                 /\ pc' = "wait"
                 /\ UNCHANGED process
                 /\ UNCHANGED memory
    /\ UNCHANGED <<attested, queries>>
    /\ UNCHANGED <<head, log, registry, records, onboardings>>

\* lines 124-126: the wait raises, or it returns the receipt of the mined
\* transaction, whose status is not looked at
Wait ==
    /\ pc = "wait"
    /\ \/ \E cause \in WaitFailures :
            /\ txlog' = Resolve("timeout")
            /\ Exit(cause)
       \/ /\ receipt # "none"
          /\ txlog' = Resolve(receipt)
          /\ onboarded' = IF MarksOnboarded(receipt)
                          THEN AddOnboarded(onboarded, new_id)
                          ELSE onboarded
          /\ pc' = "for"
          /\ UNCHANGED process
          /\ UNCHANGED <<identity, my_member_id, is_member, last_block,
                         start_block, current_block, events, evt,
                         recipient_pubkey, payload>>
    /\ calls' = calls \cup {"wait_for_transaction_receipt"}
    /\ UNCHANGED <<attested, queries>>
    /\ UNCHANGED ledger

\* line 128
Sleep ==
    /\ pc = "sleep"
    /\ pc' = "poll"
    /\ UNCHANGED txlog
    /\ UNCHANGED trace
    /\ UNCHANGED process
    /\ UNCHANGED memory
    /\ UNCHANGED ledger

(* --------------------------- status endpoint -------------------------- *)

\* variant: the handler clears the dedup set it reports on
StatusGet_Mutating ==
    /\ serverUp
    /\ status_body' = [status |-> "ok", memberId |-> my_member_id,
                       onboarded_count |-> Cardinality(onboarded)]
    /\ onboarded' = {}
    /\ UNCHANGED <<txlog, pc, life, exitCause, exitAt, serverUp>>
    /\ UNCHANGED trace
    /\ UNCHANGED <<identity, my_member_id, is_member, last_block, start_block,
                   current_block, events, evt, recipient_pubkey, payload>>
    /\ UNCHANGED ledger

\* lines 88-97, on the server thread
StatusGet ==
    /\ serverUp
    /\ status_body' = [status |-> "ok", memberId |-> my_member_id,
                       onboarded_count |-> Cardinality(onboarded)]
    /\ UNCHANGED <<txlog, pc, life, exitCause, exitAt, serverUp>>
    /\ UNCHANGED trace
    /\ UNCHANGED memory
    /\ UNCHANGED ledger

(* ------------------------------ restart ------------------------------- *)

\* the script runs again from line 1
Restart ==
    /\ pc = "exited"
    /\ life < MaxRestarts
    /\ life' = life + 1
    /\ pc' = "derive"
    /\ exitCause' = "none"
    /\ exitAt' = "none"
    /\ txlog' = << >>
    /\ attested' = -1
    /\ calls' = {}
    /\ queries' = << >>
    /\ status_body' = NoStatus
    /\ UNCHANGED serverUp
    /\ UNCHANGED memory
    /\ UNCHANGED ledger

(* --------------------------- specification ---------------------------- *)

\* the record an already registered agent has
OwnRecord == [codeId |-> CodeIdOf(app_id), pubkey |-> derived_pubkey,
              registeredAt |-> 0]

Init ==
    /\ head = 0
    /\ log = << >>
    /\ registry \in {{}, {derived_pubkey}}
    /\ records = [id \in MemberIds |->
                     IF id = MemberId(derived_pubkey)
                        /\ derived_pubkey \in registry
                     THEN OwnRecord ELSE NoRecord]
    /\ onboardings = [id \in MemberIds |-> << >>]
    /\ mempool = << >>
    /\ receipt = "none"
    /\ txlog = << >>
    /\ attested = -1
    /\ calls = {}
    /\ queries = << >>
    /\ pc = "derive"
    /\ life = 0
    /\ exitCause = "none"
    /\ exitAt = "none"
    /\ info = NoInfo
    /\ result = NoResult
    /\ code_id = << >>
    /\ dstack_proof = NoProof
    /\ my_member_id = "none"
    /\ is_member = FALSE
    /\ serverUp = FALSE
    /\ onboarded = {}
    /\ last_block = 0
    /\ start_block = 0
    /\ current_block = 0
    /\ events = << >>
    /\ evt = NoEvent
    /\ recipient_pubkey = "none"
    /\ payload = NoPayload
    /\ status_body = NoStatus

Next ==
    \/ MineBlock
    \/ MineTx
    \/ DeriveIdentity
    \/ AssembleProof
    \/ CheckMember
    \/ RegisterSend
    \/ RegisterWait
    \/ StartServer
    \/ StartWatcher
    \/ Poll
    \/ GetLogs
    \/ ForNext
    \/ ForDone
    \/ GetMember
    \/ Encrypt
    \/ Send
    \/ Wait
    \/ Sleep
    \/ StatusGet
    \/ Restart

Spec == Init /\ [][Next]_vars

\* a step of the watcher loop
WatcherStep ==
    \/ Poll
    \/ GetLogs
    \/ ForNext
    \/ ForDone
    \/ GetMember
    \/ Encrypt
    \/ Send
    \/ Wait
    \/ Sleep

\* a step of the watcher loop in which nothing is raised
Succeeding == WatcherStep /\ pc' # "exited"

\* the watcher keeps running while it can, a call that is made again and
\* again does not fail every time, and the node mines every transaction it
\* was sent, waited for or not
FairSpec ==
    /\ Spec
    /\ WF_vars(WatcherStep)
    /\ SF_vars(Succeeding)
    /\ WF_vars(MineTx)

(* --------------------------- proof assembly --------------------------- *)

\* characters an attestation reply is made of here
LinkChars == {"0", "a", "A", "x", " "}

\* the links a reply may hold: every string of up to MaxLinkLen characters
Links == UNION {[1..n -> LinkChars] : n \in 0..MaxLinkLen}

\* signature chains of no, one or two links; of two links, either is any
\* link while the other is the well-behaved one, or both are the same
Chains ==
    {<< >>} \cup {<<l>> : l \in Links}
            \cup {<<l, signature_chain[2]>> : l \in Links}
            \cup {<<signature_chain[1], l>> : l \in Links}
            \cup {<<l, l>> : l \in Links}

\* application ids: the 20-byte id with one hex digit changed, with and
\* without the 0x prefix, ids of 19 and of 21 bytes, and the id behind a
\* vertical tab
AppIds ==
    LET varied == {[app_id EXCEPT ![i] = d] :
                      i \in 1..40, d \in {"0", "f", "F"}}
        sized  == {SubSeq(app_id, 1, 38), app_id \o <<"0", "1">>,
                   <<VerticalTab>> \o app_id}
    IN  UNION {{aid, <<"0", "x">> \o aid} : aid \in varied \cup sized}

\* key replies: the well-behaved one without its 0x and in upper-case
\* digits, keys of 31 and of 33 bytes, the zero key, a key above the group
\* order, and strings that do not decode
Keys ==
    {SubSeq(key, 3, 66),
     <<"0", "X">> \o SubSeq(key, 3, 66),
     [key EXCEPT ![66] = "A"],
     SubSeq(key, 1, 64),
     key \o <<"0", "2">>,
     <<"0", "x">> \o [i \in 1..64 |-> "0"],
     <<"0", "x">> \o [i \in 1..64 |-> "f"],
     SubSeq(key, 1, 65),
     BadKey,
     << >>}

\* identity derivation on any reply of the attestation service
DeriveAny ==
    \/ \E sc \in Chains : Derive(TRUE, app_id, key, sc)
    \/ \E aid \in AppIds : Derive(TRUE, aid, key, signature_chain)
    \/ \E k \in Keys : Derive(TRUE, app_id, k, signature_chain)
    \/ Derive(FALSE, app_id, key, signature_chain)

ProofNext ==
    \/ DeriveAny
    \/ AssembleProof

\* lines 26-71 alone, on every reply
ProofSpec == Init /\ [][ProofNext]_vars

(* -------------------------- integration test -------------------------- *)

\* keys the test registers: fresh GitHub node keys and the Dstack key
GitHubKeys == {"P1", "P2"}

\* payloads the test hands to onboard as raw bytes
TestPayloads ==
    {[cipher |-> "raw", key |-> "none", plain |-> p] :
        p \in {"gh-to-gh-secret", "gh-to-ds-secret", "ds-to-gh-secret",
               "chain-onboard"}}

\* everything the agent process holds; the test runs no agent
agent == <<attested, calls, queries, pc, life, exitCause, exitAt,
           identity, my_member_id, is_member, serverUp, onboarded, last_block,
           start_block, current_block, events, evt, recipient_pubkey,
           payload, status_body>>

\* a transaction of the test with the receipt send_tx got for it
TestTx(kind, from, to, pl, status, blk) ==
    [kind |-> kind, from |-> from, to |-> to, payload |-> pl,
     status |-> status, evblock |-> blk]

\* a registration sent through send_tx: mined in a block of its own
TestRegister(pk, code) ==
    /\ Len(txlog) < MaxTestTxs
    /\ pk \notin registry
    /\ \E status \in {"ok", "reverted"} :
         IF status = "ok"
         THEN /\ txlog' = Append(txlog, TestTx("register", MemberId(pk),
                                 MemberId(pk), NoPayload, status, head + 1))
              /\ head' = head + 1
              /\ log' = Append(log, [block |-> head + 1, pubkey |-> pk])
              /\ registry' = registry \cup {pk}
              /\ records' = RegistryRegister(records, pk, code, head + 1)
              /\ UNCHANGED <<onboardings, mempool, receipt>>
         ELSE /\ txlog' = Append(txlog, TestTx("register", MemberId(pk),
                                 MemberId(pk), NoPayload, status, 0))
              /\ UNCHANGED ledger
    /\ UNCHANGED agent

\* registerGitHub(gh_proof, gh_inputs, pubkey, sig) for a fresh node key
TestRegisterGitHub ==
    \E pk \in GitHubKeys : TestRegister(pk, ZeroExtend(commit_sha))

\* registerDstack(ds_code_id, ds_proof_tuple)
TestRegisterDstack == TestRegister(derived_pubkey, ds_code_id)

\* registry: the status an onboarding from this sender can be mined with;
\* one from a sender that is no member is rejected
OnboardStatuses(recs, from) ==
    IF recs[from] = NoRecord THEN {"reverted"} ELSE {"ok", "reverted"}

\* onboard(from, to, payload) to a registered member; nothing is asked
\* about the sender before line 332, whose sender is the Dstack member
\* whether its registration at line 287 went through or not
TestOnboard ==
    /\ Len(txlog) < MaxTestTxs
    /\ \E a \in registry \cup {derived_pubkey}, b \in registry,
          pl \in TestPayloads :
       \E status \in OnboardStatuses(records, MemberId(a)) :
         /\ a # b
         /\ txlog' = Append(txlog, TestTx("onboard", MemberId(a), MemberId(b),
                                          pl, status, 0))
         /\ IF status = "ok"
            THEN /\ head' = head + 1
                 /\ onboardings' = RegistryOnboard(onboardings, MemberId(a),
                                                   MemberId(b), pl)
                 /\ UNCHANGED <<log, registry, records, mempool, receipt>>
            ELSE UNCHANGED ledger
    /\ UNCHANGED agent

\* a freshly deployed registry and no agent
TestInit ==
    /\ head = 0
    /\ log = << >>
    /\ registry = {}
    /\ records = [id \in MemberIds |-> NoRecord]
    /\ onboardings = [id \in MemberIds |-> << >>]
    /\ mempool = << >>
    /\ receipt = "none"
    /\ txlog = << >>
    /\ attested = -1
    /\ calls = {}
    /\ queries = << >>
    /\ pc = "test"
    /\ life = 0
    /\ exitCause = "none"
    /\ exitAt = "none"
    /\ info = NoInfo
    /\ result = NoResult
    /\ code_id = << >>
    /\ dstack_proof = NoProof
    /\ my_member_id = "none"
    /\ is_member = FALSE
    /\ serverUp = FALSE
    /\ onboarded = {}
    /\ last_block = 0
    /\ start_block = 0
    /\ current_block = 0
    /\ events = << >>
    /\ evt = NoEvent
    /\ recipient_pubkey = "none"
    /\ payload = NoPayload
    /\ status_body = NoStatus

TestNext ==
    \/ TestRegisterGitHub
    \/ TestRegisterDstack
    \/ TestOnboard

TestSpec == TestInit /\ [][TestNext]_vars

(* ------------------------------ properties ---------------------------- *)

TxIdx == 1..Len(txlog)

\* onboarding transactions this process has submitted to member m
OnboardTxs(m) ==
    {i \in TxIdx : txlog[i].kind = "onboard" /\ txlog[i].to = m}

OkOnboardTxs(m) == {i \in OnboardTxs(m) : txlog[i].status = "ok"}

\* registration transactions this process has submitted
RegisterTxs ==
    {i \in TxIdx : txlog[i].kind = "register"}

\* this process has met no read, encryption or transaction failure
NoFailure ==
    /\ exitCause = "none"
    /\ \A i \in TxIdx : txlog[i].status \in {"pending", "ok"}

\* events of member m in blocks the watermark of this process has passed
CoveredEvents(m) ==
    {i \in 1..Len(log) : /\ MemberId(log[i].pubkey) = m
                         /\ log[i].block > start_block
                         /\ log[i].block <= last_block}

\* C1: without read or transaction failures the watcher submits exactly one
\* onboarding transaction for each distinct memberId other than its own
\* whose event it has processed, never more than one for any memberId,
\* none for itself, and none for a memberId already in the dedup set.
C1_AtMostOncePerPeer ==
    (pc \in WatcherPcs /\ NoFailure) =>
        \A m \in MemberIds :
            /\ Cardinality(OnboardTxs(m)) <= 1
            /\ (m = my_member_id => OnboardTxs(m) = {})
            /\ (m # my_member_id /\ CoveredEvents(m) # {}
                    => Cardinality(OnboardTxs(m)) = 1)
            /\ (m \in onboarded /\ pc \in {"getMember", "encrypt", "send"}
                    => new_id # m)

\* C1 witness: two events of member M1 in different blocks, both behind
\* the watermark, and one transaction to M1.
C1_Witness ==
    /\ pc \in WatcherPcs
    /\ NoFailure
    /\ \E i, j \in CoveredEvents("M1") : log[i].block < log[j].block
    /\ Cardinality(OnboardTxs("M1")) = 1

\* C2: once an onboarding transaction for a member has failed, the member
\* gets at most one successful onboarding, and until it has one the
\* watermark stays below the block of its event so that a later tick
\* retries it.
C2_RetryAfterFailure ==
    pc \in WatcherPcs =>
        \A i \in TxIdx :
            (txlog[i].kind = "onboard"
                 /\ txlog[i].status \in {"reverted", "timeout"})
            => /\ Cardinality(OkOnboardTxs(txlog[i].to)) <= 1
               /\ (OkOnboardTxs(txlog[i].to) = {}
                       => last_block < txlog[i].evblock)

\* C3: the watermark moves only to currentBlock and only when no onboarding
\* transaction for an event of the range it moves over has failed.
C3_NoAdvancePastFailure ==
    [][(pc \in WatcherPcs /\ pc' \in WatcherPcs /\ last_block' # last_block)
        => /\ last_block' = current_block
           /\ \A i \in TxIdx :
                (/\ txlog[i].kind = "onboard"
                 /\ txlog[i].evblock > last_block
                 /\ txlog[i].evblock <= last_block')
                => txlog[i].status = "ok"]_vars

\* C4: every memberId in the dedup set has an onboarding transaction of
\* this process that was confirmed with receipt status 1.
C4_OnboardedOnlyOnSuccess ==
    \A m \in onboarded : OkOnboardTxs(m) # {}

\* C5: no onboarding transaction is ever addressed to the agent's own
\* memberId, and the agent's own memberId is never in the dedup set.
C5_NoSelfOnboarding ==
    /\ \A i \in TxIdx :
         txlog[i].kind = "onboard" => txlog[i].to # txlog[i].from
    /\ my_member_id \notin onboarded

\* C5 witness: an event carrying the agent's own key lies in a range the
\* watcher has processed.
C5_Witness ==
    /\ pc \in WatcherPcs
    /\ CoveredEvents(my_member_id) # {}

\* C6: one run of the startup submits at most one registration
\* transaction, and submits it only after isMember returned false; a run
\* that found the identity registered submits none.
C6_IdempotentRegistration ==
    /\ Cardinality(RegisterTxs) <= 1
    /\ (RegisterTxs # {} =>
            ~is_member /\ pc \notin {"derive", "isMember"})
    /\ (is_member => RegisterTxs = {})

\* C6 witness: a restarted process finds the identity registered by an
\* earlier registration and reaches the watcher loop without registering.
C6_Witness ==
    /\ life > 0
    /\ pc \in WatcherPcs
    /\ is_member
    /\ \E i \in 1..Len(log) : log[i].pubkey = derived_pubkey
    /\ RegisterTxs = {}

\* C7: no step of the watcher loop lowers lastSeenBlock.
C7_WatermarkMonotonic ==
    [][(pc \in WatcherPcs /\ pc' \in WatcherPcs)
        => last_block' >= last_block]_vars

\* C7 witness: the watermark has advanced twice since the loop started.
C7_Witness ==
    /\ pc \in WatcherPcs
    /\ last_block >= start_block + 2

\* C8: a failed onboarding transaction never ends the process.
C8_TxFailureNotFatal ==
    ~(pc = "exited" /\ exitAt = "wait")

\* C9: a registry read failure in a tick changes neither lastSeenBlock nor
\* onboarded and the loop goes on to its next tick.
C9_ReadFailureRetried ==
    [][(pc \in {"poll", "get_logs", "getMember"} /\ exitCause' = "ReadError")
        => /\ last_block' = last_block
           /\ onboarded' = onboarded
           /\ pc' = "sleep"]_vars

\* C10: when encryption to a member's key fails, the member is skipped and
\* not added to onboarded, and the loop goes on with the remaining events
\* of the range.
C10_EncryptionFailureSkips ==
    [][(pc = "encrypt" /\ ~WellFormedKey(recipient_pubkey) /\ pc' # pc)
        => /\ pc' = "for"
           /\ onboarded' = onboarded
           /\ events' = events]_vars

\* C11: under fair scheduling, with calls that do not fail forever, every
\* member with a well-formed key other than the agent whose registration
\* event lies in a block above the head a running watcher started from is
\* eventually sent an onboarding transaction and is in onboarded.
C11_EventualOnboarding ==
    \A pk \in {"P1", "P2"} :
        (/\ pc \in WatcherPcs
         /\ \E i \in 1..Len(log) : /\ log[i].pubkey = pk
                                   /\ log[i].block > start_block)
            ~> (/\ MemberId(pk) \in onboarded
                /\ OnboardTxs(MemberId(pk)) # {})

\* C12: a registration transaction mined with a status other than 1 ends
\* the process at once: it is the only transaction of the process, the
\* status endpoint is not up and has answered nothing, and no event query
\* and no onboarding transaction has been made.
C12_RevertedRegistrationFatal ==
    \A i \in RegisterTxs :
        txlog[i].status = "reverted"
            => /\ pc = "exited"
               /\ exitCause = "RegistrationReverted"
               /\ Len(txlog) = 1
               /\ ~serverUp
               /\ status_body = NoStatus
               /\ queries = << >>
               /\ calls \cap {"block_number", "get_logs", "getMember"} = {}

\* C12 witness: the process has ended on a reverted registration.
C12_Witness ==
    /\ pc = "exited"
    /\ exitCause = "RegistrationReverted"
    /\ \E i \in RegisterTxs : txlog[i].status = "reverted"

\* C13: when the attestation service is unreachable or returns a chain of
\* one link or none, the process does not get past proof assembly: it ends
\* in identity derivation or proof assembly and has made no ledger call
\* and sent no transaction.
C13_BadAttestationFatal ==
    attested \in {0, 1}
        => /\ pc \in {"assemble", "exited"}
           /\ pc = "exited" => exitAt \in {"derive", "assemble"}
           /\ calls = {}
           /\ txlog = << >>
           /\ ~serverUp

\* C13 witness: the service returned a chain of exactly one link.
C13_Witness ==
    /\ attested = 1
    /\ exitAt = "assemble"
    /\ exitCause = "IndexError"

\* the first event query of this process returned exactly the events of
\* P1 and P2, both of one block
TwoInOneBlock ==
    /\ Len(queries) = 1
    /\ LET got == get_logs(queries[1][1], queries[1][2])
       IN  /\ Len(got) = 2
           /\ got[1].block = got[2].block
           /\ {got[1].pubkey, got[2].pubkey} = {"P1", "P2"}

\* C14: when the first event query of a watcher returned one event of M1
\* (key P1) and one of M2 (key P2) in the same block, then at the end of
\* that tick exactly two onboarding transactions have been submitted, the
\* one to M1 carrying the secret encrypted under P1 and the one to M2
\* under P2, and onboarded = {M1, M2}.
C14_TwoMembersOneBlock ==
    (pc = "sleep" /\ TwoInOneBlock)
        => /\ Cardinality({i \in TxIdx : txlog[i].kind = "onboard"}) = 2
           /\ \E i \in OnboardTxs("M1") :
                  /\ txlog[i].payload.key = "P1"
                  /\ txlog[i].payload.plain = GROUP_SECRET
           /\ \E i \in OnboardTxs("M2") :
                  /\ txlog[i].payload.key = "P2"
                  /\ txlog[i].payload.plain = GROUP_SECRET
           /\ onboarded = {"M1", "M2"}

\* C14 witness: such a tick has run to its end with both receipts good.
C14_Witness ==
    /\ pc = "sleep"
    /\ TwoInOneBlock
    /\ \A i \in TxIdx : txlog[i].status = "ok"
    /\ onboarded = {"M1", "M2"}

\* C15: a tick that reads a head not above lastSeenBlock goes straight to
\* sleep without an error: no event query is issued, no transaction is
\* submitted, lastSeenBlock and onboarded keep their values; the sleep that
\* follows changes nothing either.
C15_NoNewBlockNoOp ==
    [][/\ (pc = "poll" /\ pc' # pc /\ exitCause' = "none"
             /\ head <= last_block)
            => /\ pc' = "sleep"
               /\ queries' = queries
               /\ txlog' = txlog
               /\ last_block' = last_block
               /\ onboarded' = onboarded
       /\ (pc = "sleep" /\ pc' # pc)
            => /\ pc' = "poll"
               /\ queries' = queries
               /\ txlog' = txlog
               /\ last_block' = last_block
               /\ onboarded' = onboarded]_vars

\* C15 witness: a watcher sleeps although it has never queried events, so
\* the tick before found the head where the watermark already was.
C15_Witness ==
    /\ pc = "sleep"
    /\ queries = << >>
    /\ head = last_block
    /\ txlog = << >>

\* C16: when exactly one onboarding to a registered member B has been
\* mined with status 1, sent by registered member A, getOnboarding(B) has
\* exactly one entry, whose sender is A and whose payload is the payload
\* submitted, for GitHub and Dstack members alike.
C16_OnboardingRecorded ==
    \A b \in MemberIds :
        Cardinality(OkOnboardTxs(b)) = 1
            => LET i == CHOOSE j \in OkOnboardTxs(b) : TRUE
               IN  getOnboarding(b) =
                       <<[fromMember |-> txlog[i].from,
                          encryptedPayload |-> txlog[i].payload]>>

\* C16 witness: the Dstack member onboarded a GitHub member, which then
\* onboarded a further GitHub member with another payload.
C16_Witness ==
    /\ Len(getOnboarding("M1")) = 1
    /\ getOnboarding("M1")[1].fromMember = "M0"
    /\ Len(getOnboarding("M2")) = 1
    /\ getOnboarding("M2")[1].fromMember = "M1"
    /\ getOnboarding("M2")[1].encryptedPayload.plain = "chain-onboard"
    /\ getOnboarding("M1")[1].encryptedPayload.plain = "gh-to-gh-secret"

\* C17: every registration mined with status 1 leaves a record that stays
\* as it was made: the member is a member, its codeId is the one registered
\* (the app id for Dstack, the commit for GitHub, zero-extended) and its
\* block of registration is the one the registration was mined in.
C17_MembershipRecorded ==
    \A i \in RegisterTxs :
        txlog[i].status = "ok"
            => LET id == txlog[i].to
               IN  /\ isMember(id)
                   /\ Len(getMember(id).codeId) = 32
                   /\ SubSeq(getMember(id).codeId, 1, 20) =
                          IF id = "M0" THEN [k \in 1..20 |-> 160]
                                       ELSE [k \in 1..20 |-> 10]
                   /\ \A k \in 21..32 : getMember(id).codeId[k] = 0
                   /\ MemberId(getMember(id).pubkey) = id
                   /\ getMember(id).registeredAt = txlog[i].evblock

\* C17 witness: a GitHub and a Dstack registration were followed by an
\* onboarding and by one more registration, and the Dstack member had sent
\* an onboarding, which was rejected, before it was registered.
C17_Witness ==
    /\ registry = {"P0", "P1", "P2"}
    /\ \E i \in TxIdx, j \in RegisterTxs :
          /\ i < j
          /\ txlog[i].kind = "onboard"
          /\ txlog[i].from = "M0"
          /\ txlog[i].status = "reverted"
          /\ txlog[j].to = "M0"
          /\ txlog[j].status = "ok"
          /\ \E k \in RegisterTxs : k < i /\ txlog[k].status = "ok"
    /\ getMember("M0").registeredAt < getMember("M2").registeredAt
    /\ getMember("M1").registeredAt < getMember("M2").registeredAt
    /\ \E b \in {"M0", "M1"} : Len(getOnboarding(b)) = 1
    /\ head = 4

\* C19: the dedup set is empty when the watcher loop is entered, and no
\* step of the watcher removes a memberId from it.
C19_DedupSetGrows ==
    [][/\ (pc \notin WatcherPcs /\ pc' \in WatcherPcs) => onboarded' = {}
       /\ (pc \in WatcherPcs /\ pc' \in WatcherPcs)
            => onboarded \subseteq onboarded']_vars

\* C19 witness: the set of a running watcher has grown twice.
C19_Witness ==
    /\ pc \in WatcherPcs
    /\ Cardinality(onboarded) = 2

\* C20: whenever a status request is answered, also in the middle of a
\* watcher tick, the step changes neither onboarded nor lastSeenBlock nor
\* the identity values, and neither the transactions of the process nor the
\* ledger.
C20_StatusOnlyReads ==
    [][(serverUp /\ status_body' # status_body)
        => /\ onboarded' = onboarded
           /\ last_block' = last_block
           /\ my_member_id' = my_member_id
           /\ is_member' = is_member
           /\ txlog' = txlog
           /\ calls' = calls
           /\ ledger' = ledger
           /\ pc' = pc]_vars

\* C20 witness: a request was answered between the submission of an
\* onboarding transaction and its receipt, after an earlier onboarding.
C20_Witness ==
    /\ pc = "wait"
    /\ status_body.status = "ok"
    /\ status_body.onboarded_count = 1
    /\ status_body.memberId = my_member_id
    /\ onboarded # {}

\* C21: a process that has made a ledger call, queried events or submitted
\* a transaction has before that received both links of the attestation
\* chain and run the derivation and the proof assembly to their end: it is
\* past both and did not end in either, and while it runs it holds the
\* 32-byte code id, the proof with both decoded links and the derived key,
\* and the member id of that key; its first ledger call is isMember.  A
\* process that is in the watcher loop, or ended there, or has queried
\* events or submitted an onboarding transaction, has had isMember answer
\* true or has a registration transaction confirmed with status 1.
C21_StartupOrdering ==
    /\ (calls # {} \/ txlog # << >> \/ queries # << >>)
         => /\ attested = 2
            /\ pc \notin {"derive", "assemble"}
            /\ pc = "exited" => exitAt \notin {"derive", "assemble"}
            /\ "isMember" \in calls
            /\ pc # "exited"
                 => /\ Len(code_id) = 32
                    /\ dstack_proof # NoProof
                    /\ Len(dstack_proof.appSignature) > 0
                    /\ Len(dstack_proof.kmsSignature) > 0
                    /\ dstack_proof.derivedCompressedPubkey = derived_pubkey
                    /\ my_member_id = MemberId(derived_pubkey)
    /\ pc \in WatcherPcs
         => (is_member \/ \E i \in RegisterTxs : txlog[i].status = "ok")
    /\ (\/ queries # << >>
        \/ "get_logs" \in calls
        \/ \E i \in TxIdx : txlog[i].kind = "onboard")
         => /\ pc \in WatcherPcs \/ (pc = "exited" /\ exitAt \in WatcherPcs)
            /\ "isMember" \in calls
            /\ \A i \in RegisterTxs : txlog[i].status = "ok"

\* C21 witness: a watcher that holds the assembled proof, and whose
\* membership comes from its own registration, has queried events and
\* submitted an onboarding transaction.
C21_Witness ==
    /\ pc \in WatcherPcs
    /\ attested = 2
    /\ dstack_proof # NoProof
    /\ Len(code_id) = 32
    /\ ~is_member
    /\ \E i \in RegisterTxs : txlog[i].status = "ok"
    /\ queries # << >>
    /\ \E i \in TxIdx : txlog[i].kind = "onboard"

\* C22: every onboarding transaction of the agent names the agent's own
\* memberId as sender and the memberId of an event of the registry as
\* recipient, and carries the shared secret encrypted under the public key
\* of the recipient's membership record, never the secret in the clear.
C22_OnboardTxContents ==
    \A i \in TxIdx :
        txlog[i].kind = "onboard"
            => /\ txlog[i].from = MemberId(derived_pubkey)
               /\ \E k \in 1..Len(log) :
                      /\ log[k].block = txlog[i].evblock
                      /\ MemberId(log[k].pubkey) = txlog[i].to
               /\ txlog[i].payload.cipher = "ecies"
               /\ txlog[i].payload.key = getMember(txlog[i].to).pubkey
               /\ txlog[i].payload.plain = GROUP_SECRET

\* C22 witness: onboarding transactions to two members with different keys
\* have been confirmed.
C22_Witness ==
    /\ OkOnboardTxs("M1") # {}
    /\ OkOnboardTxs("M2") # {}

\* C23: in a running watcher the ranges queried so far start right above
\* the startup head, each starts right above the end of the one before,
\* the range of the tick under way is lastSeenBlock+1 to the head that tick
\* read, between ticks lastSeenBlock is the end of the last range, and so
\* every block above the startup head and at most lastSeenBlock lies in a
\* queried range.
C23_RangesContiguous ==
    pc \in WatcherPcs
        => LET n == Len(queries)
           IN  /\ n > 0 => queries[1][1] = start_block + 1
               /\ \A k \in 1..(n - 1) : queries[k + 1][1] = queries[k][2] + 1
               /\ pc \in {"for", "getMember", "encrypt", "send", "wait"}
                    => /\ n > 0
                       /\ queries[n] = <<last_block + 1, current_block>>
               /\ pc \in {"poll", "sleep", "get_logs"}
                    => last_block = IF n = 0 THEN start_block
                                    ELSE queries[n][2]
               /\ \A b \in (start_block + 1)..last_block :
                      \E k \in 1..n : queries[k][1] <= b /\ b <= queries[k][2]

\* C23 witness: two ticks have queried one block each, while a further
\* block was mined.
C23_Witness ==
    /\ pc = "sleep"
    /\ start_block = 0
    /\ queries = << <<1, 1>>, <<2, 2>> >>
    /\ last_block = 2

\* position in the registry's log of the event transaction i answers: the
\* first event of its recipient in the block the transaction was sent for
EvPos(i) ==
    CHOOSE k \in 1..Len(log) :
        /\ log[k].block = txlog[i].evblock
        /\ MemberId(log[k].pubkey) = txlog[i].to
        /\ \A h \in 1..(k - 1) : ~(/\ log[h].block = txlog[i].evblock
                                   /\ MemberId(log[h].pubkey) = txlog[i].to)

\* C24: during a tick the events still to be handled are the tail of the
\* queried range in registry order (ascending block, then log index), and
\* the onboarding transactions of the process were submitted in the order
\* of their events in the registry's log.
C24_RegistryOrder ==
    /\ pc \in {"for", "getMember", "encrypt", "send", "wait"}
         => LET q == queries[Len(queries)]
                got == SelectSeq(log, LAMBDA e : e.block >= q[1]
                                                 /\ e.block <= q[2])
            IN  /\ \E m \in 1..(Len(got) + 1) :
                       events = SubSeq(got, m, Len(got))
                /\ \A a, b \in 1..Len(got) :
                       a < b => got[a].block <= got[b].block
    /\ \A i, j \in TxIdx :
         (i < j /\ txlog[i].kind = "onboard" /\ txlog[j].kind = "onboard")
            => EvPos(i) < EvPos(j)

\* C24 witness: one tick onboarded two members of one block, the member
\* with the higher key name first because its event came first.
C24_Witness ==
    /\ Len(log) = 2
    /\ log[1].pubkey = "P2"
    /\ log[2].pubkey = "P1"
    /\ log[1].block = log[2].block
    /\ Len(txlog) = 2
    /\ txlog[1].to = "M2"
    /\ txlog[2].to = "M1"

\* transactions of this process whose receipt has not been obtained
PendingTxs == {i \in TxIdx : txlog[i].status = "pending"}

\* C25: the process has at most one transaction without a receipt, it is
\* the one sent last, and the script is then waiting for that receipt; so
\* a transaction is sent only when every earlier one has its receipt, and
\* a tick starts only when the tick before has handled all its events.
C25_SerialSending ==
    /\ Cardinality(PendingTxs) <= 1
    /\ PendingTxs # {} => PendingTxs = {Len(txlog)}
    /\ PendingTxs # {} <=> pc \in {"register_wait", "wait"}
    /\ pc \in {"send", "register_send"} => PendingTxs = {}
    /\ pc \in {"poll", "get_logs", "sleep"} => events = << >>

\* C25 witness: an onboarding transaction is awaited after the
\* registration of the process got its receipt.
C25_Witness ==
    /\ pc = "wait"
    /\ Len(txlog) = 2
    /\ txlog[1].kind = "register"
    /\ txlog[1].status = "ok"
    /\ txlog[2].kind = "onboard"
    /\ txlog[2].status = "pending"

\* C26: the watcher starts with lastSeenBlock equal to the head it reads
\* at that moment and with an empty dedup set, a restarted process carries
\* over neither, and a running watcher has only sent onboarding
\* transactions for, and only marked as onboarded, members with an event
\* above the head it started from; a member whose events all lie at or
\* below that head gets nothing from this process.
C26_RestartRescansFromHead ==
    [][/\ (pc = "watch" /\ pc' = "poll")
            => /\ last_block' = head
               /\ onboarded' = {}
       /\ (pc = "exited" /\ pc' # pc)
            => /\ onboarded' = {}
               /\ last_block' = 0
               /\ txlog' = << >>
       /\ pc' \in WatcherPcs
            => /\ \A i \in 1..Len(txlog') :
                      txlog'[i].kind = "onboard"
                          => \E k \in 1..Len(log') :
                                 /\ MemberId(log'[k].pubkey) = txlog'[i].to
                                 /\ log'[k].block > start_block'
                                 /\ log'[k].block = txlog'[i].evblock
               /\ \A m \in onboarded' :
                      \E k \in 1..Len(log') :
                          /\ MemberId(log'[k].pubkey) = m
                          /\ log'[k].block > start_block']_vars

\* C26 witness: a restarted watcher has caught up with the head, and a
\* member registered while the process was down has no onboarding message.
C26_Witness ==
    /\ life = 1
    /\ pc = "sleep"
    /\ queries # << >>
    /\ last_block = head
    /\ \E k \in 1..Len(log) : /\ log[k].pubkey = "P1"
                              /\ log[k].block <= start_block
    /\ "M1" \notin onboarded
    /\ getOnboarding("M1") = << >>

\* the later of the heads this watcher has read: at startup and in ticks
LatestHeadRead == IF current_block > start_block
                  THEN current_block ELSE start_block

\* C29: in a running watcher lastSeenBlock is at most the latest head the
\* watcher has read and at most the head of the chain, and every event
\* query the process has issued has fromBlock <= toBlock.
C29_WatermarkBelowHead ==
    /\ pc \in WatcherPcs
         => /\ last_block <= LatestHeadRead
            /\ last_block <= head
    /\ \A k \in 1..Len(queries) : queries[k][1] <= queries[k][2]

\* C29 witness: the watermark has reached the head in two ticks.
C29_Witness ==
    /\ pc \in WatcherPcs
    /\ Len(queries) = 2
    /\ last_block = head
    /\ last_block = LatestHeadRead
    /\ last_block > start_block

\* C30: whatever events, read failures and receipts occur, a process has
\* submitted at most one onboarding transaction to any memberId; a
\* transaction whose wait raised is the last thing the process did, and
\* in a running watcher every recipient whose receipt came back is in the
\* dedup set.
C30_OneTxPerRecipient ==
    /\ \A m \in MemberIds : Cardinality(OnboardTxs(m)) <= 1
    /\ \A i \in TxIdx :
         txlog[i].status = "timeout" => pc = "exited" /\ i = Len(txlog)
    /\ pc \in WatcherPcs
         => \A i \in TxIdx :
                (txlog[i].kind = "onboard" /\ txlog[i].status # "pending")
                    => txlog[i].to \in onboarded

\* C30 witness: a member registered twice got a reverted onboarding
\* transaction for its first event and nothing for its second, which the
\* watermark has passed as well.
C30_Witness ==
    /\ pc = "sleep"
    /\ Cardinality(CoveredEvents("M1")) = 2
    /\ Cardinality(OnboardTxs("M1")) = 1
    /\ \E i \in OnboardTxs("M1") : txlog[i].status = "reverted"

\* the hex digits of a byte string, two for each byte
ToHex(bytes) ==
    [i \in 1..(2 * Len(bytes)) |->
        IF i % 2 = 1 THEN HexDigits[(bytes[(i + 1) \div 2] \div 16) + 1]
                     ELSE HexDigits[(bytes[i \div 2] % 16) + 1]]

\* a hex string without its leading 0x, if it has one
StripPrefix(str) ==
    IF Len(str) >= 2 /\ str[1] = "0" /\ str[2] = "x"
    THEN SubSeq(str, 3, Len(str)) ELSE str

\* str is the hex encoding of a byte string, in digits of either case,
\* with or without leading 0x
HexString(str) ==
    /\ Len(StripPrefix(str)) % 2 = 0
    /\ \A i \in 1..Len(StripPrefix(str)) :
           StripPrefix(str)[i] \in
               {"0", "1", "2", "3", "4", "5", "6", "7", "8", "9",
                "a", "b", "c", "d", "e", "f", "A", "B", "C", "D", "E", "F"}

\* str with its upper-case hex digits in lower case
Lower(str) ==
    [i \in 1..Len(str) |->
        CASE str[i] = "A" -> "a"
          [] str[i] = "B" -> "b"
          [] str[i] = "C" -> "c"
          [] str[i] = "D" -> "d"
          [] str[i] = "E" -> "e"
          [] str[i] = "F" -> "f"
          [] OTHER -> str[i]]

\* the signature a hex string encodes recovers to some key
Recoverable(str) == RecoverKey(FromHex(StripPrefix(str))) # "invalid"

\* C27: when both links of the chain and the application id are hex
\* encodings and each link is a signature that recovers to a key, whichever
\* key that is, proof assembly goes on to the first ledger call, and the
\* appSignature and kmsSignature of the proof are the bytes the first and
\* the second link encode.
C27_SignaturesForwarded ==
    [][(/\ pc = "assemble"
        /\ pc' # pc
        /\ Len(result.signature_chain) = 2
        /\ HexString(result.signature_chain[1])
        /\ HexString(result.signature_chain[2])
        /\ HexString(info.app_id)
        /\ Recoverable(result.signature_chain[1])
        /\ Recoverable(result.signature_chain[2]))
        => /\ pc' = "isMember"
           /\ ToHex(dstack_proof'.appSignature) =
                  Lower(StripPrefix(result.signature_chain[1]))
           /\ ToHex(dstack_proof'.kmsSignature) =
                  Lower(StripPrefix(result.signature_chain[2]))]_vars

\* C27 witness: a proof was assembled from two links that both recover to
\* a key that is neither the application's nor the KMS root's.
C27_Witness ==
    /\ pc = "isMember"
    /\ result.signature_chain = << <<"0", "a">>, <<"0", "a">> >>
    /\ dstack_proof.appSignature = <<10>>
    /\ dstack_proof.kmsSignature = <<10>>
    /\ dstack_proof.appCompressedPubkey = "OTHER"

\* C28: for an application id of 20 bytes the code id has 32 bytes, its
\* first 20 are the bytes of the id and its last 12 are zero, and it is
\* the code id the integration test computes for that id.
C28_CodeIdZeroExtended ==
    (/\ code_id # << >>
     /\ HexString(info.app_id)
     /\ Len(StripPrefix(info.app_id)) = 40)
        => /\ Len(code_id) = 32
           /\ ToHex(SubSeq(code_id, 1, 20)) = Lower(StripPrefix(info.app_id))
           /\ \A i \in 21..32 : code_id[i] = 0
           /\ code_id = TestCodeId(info.app_id)

\* C28 witness: the code id of an id reported with 0x in front whose last
\* byte is af.
C28_Witness ==
    /\ Len(info.app_id) = 42
    /\ Len(code_id) = 32
    /\ code_id[19] = 160
    /\ code_id[20] = 175
    /\ code_id[32] = 0

\* C31: a status response with status ok is produced only by a process
\* that has passed the registration block, and the memberId it carries is
\* the agent's own and is a member of the registry; the onboarded_count of
\* a response is the size of the dedup set when the handler runs, is not
\* below the count of the previous response of the process, and is never
\* above the size of the set afterwards.
C31_StatusAfterMembership ==
    [][/\ (status_body' # status_body /\ status_body'.status = "ok")
            => /\ pc \in {"watch"} \cup WatcherPcs
               /\ status_body'.memberId = MemberId(derived_pubkey)
               /\ isMember(status_body'.memberId)
               /\ status_body'.onboarded_count = Cardinality(onboarded)
               /\ status_body.status = "ok"
                    => status_body'.onboarded_count >= status_body.onboarded_count
       /\ (serverUp' /\ status_body'.status = "ok")
            => /\ \E pk \in registry' : MemberId(pk) = status_body'.memberId
               /\ status_body'.onboarded_count <= Cardinality(onboarded')]_vars

\* C31 witness: a request was answered after the first onboarding of the
\* process, which has onboarded one more member since.
C31_Witness ==
    /\ serverUp
    /\ status_body.status = "ok"
    /\ status_body.onboarded_count = 1
    /\ Cardinality(onboarded) = 2

====
